---- MODULE Spec2Model ----
(***************************************************************************)
(* Model of gitlab-job-helper: the GitLabClient facade (gitlab_client.py), *)
(* the batch commands and the interactive session (gitlab_helper.py) and   *)
(* the debug script (debug_job_logs.py), run against a remote CI service.  *)
(*                                                                         *)
(* Python values are tagged records ([t |-> "none"], [t |-> "int", ...])   *)
(* so that truthiness tests (`if pipeline:`, `if logs:`) are computed as   *)
(* Python computes them.  A command or REPL step is one action; inside it  *)
(* the code is a function over an execution context `c`:                   *)
(*   c.remote  the pipelines held by the remote service, most recent first *)
(*   c.net     the outcomes the network gives to the next requests         *)
(*   c.reqs    the requests sent so far, with their outcomes               *)
(*   c.calls   the facade calls finished so far                            *)
(*   c.out     the lines printed so far                                    *)
(*   c.ret     the value returned by the last call                         *)
(*   c.exc     the exception in flight (NoExc when none)                   *)
(*   c.cp/cj   the session's current pipeline id and current job id        *)
(***************************************************************************)
EXTENDS Integers, Sequences, FiniteSets, TLC

VARIABLES
    remote,               \* pipelines on the remote service, most recent first
    phase,                \* position of the process
    cmd,                  \* the command the process was started with
    config,               \* GitLabClient.config
    gl,                   \* GitLabClient.gl
    project,              \* GitLabClient.project
    current_pipeline_id,  \* interactive_mode local
    current_job_id,       \* interactive_mode local
    last                  \* what the last command or step did

vars == <<remote, phase, cmd, config, gl, project,
          current_pipeline_id, current_job_id, last>>

\* Bound on the number of pipelines the remote service holds.
MaxPipelines == 3

-----------------------------------------------------------------------------
(* Python values                                                           *)

None == [t |-> "none"]
PyInt(n) == [t |-> "int", v |-> n]
PyStr(s) == [t |-> "str", v |-> s]
PyText(s) == [t |-> "text", v |-> s]
PyList(s) == [t |-> "list", v |-> s]
PyDict(s) == [t |-> "dict", v |-> s]
PyObj(kind, rec) == [t |-> kind, v |-> rec]

\* bool(x) of Python
Truthy(x) ==
    CASE x.t = "none" -> FALSE
      [] x.t = "int"  -> x.v # 0
      [] x.t = "str"  -> x.v # ""
      [] x.t = "text" -> Len(x.v) > 0
      [] x.t = "list" -> Len(x.v) > 0
      [] x.t = "dict" -> Len(x.v) > 0
      [] OTHER        -> TRUE

NoExc == [type |-> "none", text |-> ""]
Exc(type, text) == [type |-> type, text |-> text]

Take(s, n) == SubSeq(s, 1, IF n < Len(s) THEN n ELSE Len(s))

-----------------------------------------------------------------------------
(* Text: int(), str() and the console's markup                             *)

\* The texts int() accepts, with their values (int() strips white space).
IntTable ==
    ("0" :> 0) @@ ("1" :> 1) @@ (" 2" :> 2) @@ ("3" :> 3) @@ ("9" :> 9) @@
    ("11" :> 11) @@ ("12" :> 12) @@ ("31" :> 31)

\* int(x): x is an int already, or a text; ValueError on a text that is no
\* integer literal.  The message of the ValueError quotes the text.
int(x) ==
    IF x.t = "int" THEN [ok |-> TRUE, v |-> x.v, exc |-> NoExc]
    ELSE IF x.v \in DOMAIN IntTable
         THEN [ok |-> TRUE, v |-> IntTable[x.v], exc |-> NoExc]
         ELSE [ok |-> FALSE, v |-> 0, exc |-> Exc("ValueError", x.v)]

\* str(x) for an int or a text
str(x) == IF x.t = "int" THEN ToString(x.v) ELSE x.v

\* The message of rich's MarkupError quotes the offending tag.
MarkupMsg == "closing tag '[/x]' doesn't match any open tag"

\* console.print renders its argument as markup: a closing tag that matches
\* no open tag raises MarkupError.
BadMarkup(text) == text \in {"[/x]", MarkupMsg}

\* console.print(f"...{a1}...{a2}..."): prints the line, or raises
\* MarkupError when an interpolated text breaks the markup.
console_print(c, msg, args) ==
    IF \E i \in DOMAIN args : BadMarkup(args[i])
    THEN [c EXCEPT !.exc = Exc("MarkupError", MarkupMsg)]
    ELSE [c EXCEPT !.out = Append(@, [msg |-> msg, args |-> args]),
                   !.exc = NoExc]

\* print(...): plain text, no markup
print(c, msg, args) ==
    [c EXCEPT !.out = Append(@, [msg |-> msg, args |-> args])]

-----------------------------------------------------------------------------
(* The remote service                                                      *)

Sha(id) == [i \in 1..10 |-> (id + i) % 16]

Pipeline(id, status, ref) ==
    [id |-> id, status |-> status, ref |-> ref, sha |-> Sha(id),
     created_at |-> "2024-01-01T00:00:00Z"]

Job(id, stage, name, status) ==
    [id |-> id, stage |-> stage, name |-> name, status |-> status]

\* The jobs of a pipeline, in the order the service lists them.
JobsOf(pid) ==
    IF pid = 1 THEN <<Job(11, "build", "compile", "success"),
                      Job(12, "test", "unit", "failed")>>
    ELSE IF pid = 2 THEN <<>>
    ELSE <<Job(10 * pid + 1, "build", "compile", "created")>>

\* The trace of a job, as bytes: 255 is no valid UTF-8.
Trace(jid) == IF jid = 11 THEN <<104, 105, 255>> ELSE <<>>

\* Refs the project has
ValidRefs == {"main"}

HasPipeline(rem, pid) == \E i \in DOMAIN rem : rem[i].id = pid
PipelineOf(rem, pid) == rem[CHOOSE i \in DOMAIN rem : rem[i].id = pid]
HasJob(rem, jid) ==
    \E i \in DOMAIN rem : \E k \in DOMAIN JobsOf(rem[i].id) :
        JobsOf(rem[i].id)[k].id = jid
JobOf(rem, jid) ==
    LET i == CHOOSE i \in DOMAIN rem : \E k \in DOMAIN JobsOf(rem[i].id) :
                 JobsOf(rem[i].id)[k].id = jid
        js == JobsOf(rem[i].id)
    IN js[CHOOSE k \in DOMAIN js : js[k].id = jid]

Ok(v) == [ok |-> TRUE, v |-> v, err |-> "", why |-> "ok"]
Err(why, text) == [ok |-> FALSE, v |-> None, err |-> text, why |-> why]

\* What the service answers to a request that reaches it.
Answer(rem, kind, arg) ==
    CASE kind = "projects.get"   ->
            IF arg = "group/project" THEN Ok(PyObj("project", [id |-> arg]))
            ELSE Err("notfound", "404: 404 Project Not Found")
      [] kind = "pipelines.list" -> Ok(Take(rem, arg))
      [] kind = "pipelines.get"  ->
            IF HasPipeline(rem, arg) THEN Ok(PyObj("pipeline", PipelineOf(rem, arg)))
            ELSE Err("notfound", "404: 404 Not found")
      [] kind = "pipelines.create" ->
            IF arg.ref \in ValidRefs
            THEN Ok(PyObj("pipeline",
                          Pipeline(Len(rem) + 1, "created", arg.ref)))
            ELSE Err("rejected", "400: Reference not found")
      [] kind = "jobs.list" ->
            IF HasPipeline(rem, arg) THEN Ok(JobsOf(arg))
            ELSE Err("notfound", "404: 404 Not found")
      [] kind = "jobs.get" ->
            IF HasJob(rem, arg) THEN Ok(PyObj("job", JobOf(rem, arg)))
            ELSE Err("notfound", "404: 404 Not found")
      [] kind = "job.trace" ->
            IF HasJob(rem, arg) THEN Ok([t |-> "bytes", v |-> Trace(arg)])
            ELSE Err("notfound", "404: 404 Not found")

\* What the network does to a request.
NetOutcomes == {"ok", "transport", "auth"}
NetErr(o) == IF o = "transport" THEN Err(o, "Connection refused")
             ELSE Err(o, "401: 401 Unauthorized")

\* One request: the network's outcome, the service's answer, and the
\* request recorded.  The answer is left in c.resp.
Request(c, kind, arg) ==
    LET o == IF c.net = <<>> THEN "ok" ELSE Head(c.net)
        a == IF o = "ok" THEN Answer(c.remote, kind, arg) ELSE NetErr(o)
    IN [c EXCEPT
          !.net = IF c.net = <<>> THEN <<>> ELSE Tail(c.net),
          !.reqs = Append(@, [kind |-> kind, arg |-> arg, outcome |-> a.why]),
          !.remote = IF kind = "pipelines.create" /\ a.ok
                     THEN <<a.v.v>> \o @ ELSE @,
          !.resp = a]

\* The execution context at the start of a command or step.
\* c.cp and c.cj are interactive_mode's current_pipeline_id, current_job_id.
Ctx(rem, net, cp, cj) ==
    [remote |-> rem, net |-> net, reqs |-> <<>>, calls |-> <<>>, out |-> <<>>,
     ret |-> None, exc |-> NoExc, resp |-> Ok(None), cp |-> cp, cj |-> cj]

Return(c, v) == [c EXCEPT !.ret = v, !.exc = NoExc]
Raise(c, e) == [c EXCEPT !.exc = e]
Raised(c) == c.exc.type # "none"

\* LET x == v IN F(x), with v evaluated once
Bind(v, F(_)) == CHOOSE r \in {F(x) : x \in {v}} : TRUE

\* A facade call that has finished, with the requests it sent.
EndCall(c0, c1, fn, arg) ==
    Bind(c1, LAMBDA c :
        [c EXCEPT !.calls = Append(@,
            [fn |-> fn, arg |-> arg, ret |-> c.ret, raised |-> Raised(c),
             exc |-> c.exc,
             reqs |-> SubSeq(c.reqs, Len(c0.reqs) + 1, Len(c.reqs))])])

\* `except Exception as e: console.print(f"... {str(e)}"); return empty`
Except(c, msg, args, empty) ==
    Bind(console_print(c, msg, args), LAMBDA p :
        IF Raised(p) THEN [p EXCEPT !.ret = None] ELSE Return(p, empty))

-----------------------------------------------------------------------------
(* GitLabClient: the facade (gitlab_client.py)                             *)

EmptyList == PyList(<<>>)
EmptyText == PyText(<<>>)

\* get_pipelines that leaves the page size to the service's default
get_pipelines_default_page(c, limit) ==
    Bind(Request(c, "pipelines.list", 20), LAMBDA r :
        IF r.resp.ok THEN Return(r, PyList(r.resp.v))
        ELSE Except(r, "Failed to get pipelines", <<r.resp.err>>, EmptyList))

get_pipelines_body(c, limit) ==
    Bind(Request(c, "pipelines.list", limit), LAMBDA r :
        IF r.resp.ok THEN Return(r, PyList(r.resp.v))
        ELSE Except(r, "Failed to get pipelines", <<r.resp.err>>, EmptyList))

get_pipelines(c, limit) ==
    EndCall(c, get_pipelines_body(c, limit), "get_pipelines", PyInt(limit))

\* get_pipeline answered from the pipelines seen when the command began
get_pipeline_cached(c, pipeline_id) ==
    Bind(Request(c, "pipelines.get", pipeline_id), LAMBDA r :
        IF r.resp.ok /\ HasPipeline(remote, pipeline_id)
        THEN Return(r, PyObj("pipeline", PipelineOf(remote, pipeline_id)))
        ELSE Except(r, "Failed to get pipeline",
                    <<ToString(pipeline_id), r.resp.err>>, None))

\* get_pipeline without its try/except: the error of the request propagates
get_pipeline_unguarded(c, pipeline_id) ==
    Bind(Request(c, "pipelines.get", pipeline_id), LAMBDA r :
        IF r.resp.ok THEN Return(r, r.resp.v)
        ELSE Raise(r, Exc("GitlabGetError", r.resp.err)))

get_pipeline_body(c, pipeline_id) ==
    Bind(Request(c, "pipelines.get", pipeline_id), LAMBDA r :
        IF r.resp.ok THEN Return(r, r.resp.v)
        ELSE Except(r, "Failed to get pipeline",
                    <<ToString(pipeline_id), r.resp.err>>, None))

get_pipeline(c, pipeline_id) ==
    EndCall(c, get_pipeline_body(c, pipeline_id), "get_pipeline", PyInt(pipeline_id))

get_latest_pipeline_body(c) ==
    Bind(get_pipelines(c, 1), LAMBDA p :
        IF Raised(p) THEN p
        ELSE Return(p, IF Truthy(p.ret) THEN PyObj("pipeline", p.ret.v[1])
                       ELSE None))

get_latest_pipeline(c) ==
    EndCall(c, get_latest_pipeline_body(c), "get_latest_pipeline", None)

\* the comprehension with the key written where the value belongs
variables_list_keys(variables) ==
    PyList([i \in DOMAIN variables.v |->
              [key |-> variables.v[i][1], value |-> variables.v[i][1]]])

\* [{'key': k, 'value': v} for k, v in variables.items()]
variables_list(variables) ==
    PyList([i \in DOMAIN variables.v |->
              [key |-> variables.v[i][1], value |-> variables.v[i][2]]])

\* lines 83-85: the list passed as 'variables'
variables_arg(variables) ==
    IF Truthy(variables) THEN variables_list(variables) ELSE None

\* create_pipeline sending the request a second time when the first failed
create_pipeline_retrying(c, ref, variables) ==
    IF Truthy(variables) /\ variables.t # "dict"
    THEN Except(c, "Failed to create pipeline",
                <<"object has no attribute 'items'">>, None)
    ELSE Bind(Request(c, "pipelines.create",
                      [ref |-> ref, variables |-> variables_arg(variables)]),
              LAMBDA first :
                 IF first.resp.ok THEN Return(first, first.resp.v)
                 ELSE Bind(Request(first, "pipelines.create",
                             [ref |-> ref, variables |-> variables_arg(variables)]),
                           LAMBDA r :
                              IF r.resp.ok THEN Return(r, r.resp.v)
                              ELSE Except(r, "Failed to create pipeline",
                                          <<r.resp.err>>, None)))

create_pipeline_body(c, ref, variables) ==
    IF Truthy(variables) /\ variables.t # "dict"
    THEN Except(c, "Failed to create pipeline",
                <<"object has no attribute 'items'">>, None)
    ELSE Bind(Request(c, "pipelines.create",
                      [ref |-> ref, variables |-> variables_arg(variables)]),
              LAMBDA r :
                 IF r.resp.ok THEN Return(r, r.resp.v)
                 ELSE Except(r, "Failed to create pipeline", <<r.resp.err>>, None))

create_pipeline(c, ref, variables) ==
    EndCall(c, create_pipeline_body(c, ref, variables), "create_pipeline",
            [ref |-> ref, variables |-> variables])

\* the job list asked for whatever the lookup gave
jobs_of_pipeline_unchecked(p, pipeline_id) ==
    Bind(Request(p, "jobs.list", pipeline_id), LAMBDA r :
        IF r.resp.ok THEN Return(r, PyList(r.resp.v))
        ELSE Except(r, "Failed to get jobs for pipeline",
                    <<ToString(pipeline_id), r.resp.err>>, EmptyList))

\* lines 97-99 of get_jobs, with the pipeline looked up in p.ret
jobs_of_pipeline(p, pipeline_id) ==
    IF Truthy(p.ret)
    THEN Bind(Request(p, "jobs.list", pipeline_id), LAMBDA r :
            IF r.resp.ok THEN Return(r, PyList(r.resp.v))
            ELSE Except(r, "Failed to get jobs for pipeline",
                        <<ToString(pipeline_id), r.resp.err>>, EmptyList))
    ELSE Return(p, EmptyList)

get_jobs_body(c, pipeline_id) ==
    Bind(get_pipeline(c, pipeline_id), LAMBDA p :
        IF Raised(p)
        THEN Except(p, "Failed to get jobs for pipeline",
                    <<ToString(pipeline_id), p.exc.text>>, EmptyList)
        ELSE jobs_of_pipeline(p, pipeline_id))

get_jobs(c, pipeline_id) ==
    EndCall(c, get_jobs_body(c, pipeline_id), "get_jobs", PyInt(pipeline_id))

\* get_job without its `except ValueError` clause
get_job_one_except(c, job_id) ==
    Bind(int(job_id), LAMBDA i :
        IF ~i.ok
        THEN Except(c, "Failed to get job", <<str(job_id), i.exc.text>>, None)
        ELSE Bind(Request(c, "jobs.get", i.v), LAMBDA r :
                IF r.resp.ok THEN Return(r, r.resp.v)
                ELSE Except(r, "Failed to get job",
                            <<ToString(i.v), r.resp.err>>, None)))

get_job_body(c, job_id) ==
    Bind(int(job_id), LAMBDA i :
        IF ~i.ok
        THEN Except(c, "Invalid job ID", <<str(job_id)>>, None)
        ELSE Bind(Request(c, "jobs.get", i.v), LAMBDA r :
                IF r.resp.ok THEN Return(r, r.resp.v)
                ELSE Except(r, "Failed to get job",
                            <<ToString(i.v), r.resp.err>>, None)))

get_job(c, job_id) == EndCall(c, get_job_body(c, job_id), "get_job", job_id)

\* bytes.decode('utf-8', errors='replace'): an invalid byte becomes U+FFFD
decode(bytes) == [k \in DOMAIN bytes |-> IF bytes[k] > 127 THEN 65533 ELSE bytes[k]]

\* lines 123-130 of get_job_logs, with the job looked up in j.ret
trace_of_job(j, id) ==
    IF Truthy(j.ret)
    THEN Bind(Request(j, "job.trace", id), LAMBDA r :
            IF r.resp.ok
            THEN Return(r, IF r.resp.v.t = "bytes"
                           THEN PyText(decode(r.resp.v.v)) ELSE r.resp.v)
            ELSE Except(r, "Failed to get logs for job",
                        <<ToString(id), r.resp.err>>, EmptyText))
    ELSE Return(j, EmptyText)

get_job_logs_body(c, job_id) ==
    Bind(int(job_id), LAMBDA i :
        IF ~i.ok
        THEN Except(c, "Invalid job ID", <<str(job_id)>>, EmptyText)
        ELSE Bind(get_job(c, PyInt(i.v)), LAMBDA j :
                IF Raised(j)
                THEN Except(j, "Failed to get logs for job",
                            <<ToString(i.v), j.exc.text>>, EmptyText)
                ELSE trace_of_job(j, i.v)))

get_job_logs(c, job_id) ==
    EndCall(c, get_job_logs_body(c, job_id), "get_job_logs", job_id)

\* the table with 'canceled' left out
_get_status_style_seven(status) ==
    CASE status = "success"  -> "green"
      [] status = "failed"   -> "red"
      [] status = "running"  -> "blue"
      [] status = "pending"  -> "yellow"
      [] status = "skipped"  -> "grey"
      [] status = "created"  -> "cyan"
      [] status = "manual"   -> "magenta"
      [] OTHER               -> "white"

_get_status_style(status) ==
    CASE status = "success"  -> "green"
      [] status = "failed"   -> "red"
      [] status = "running"  -> "blue"
      [] status = "pending"  -> "yellow"
      [] status = "canceled" -> "red"
      [] status = "skipped"  -> "grey"
      [] status = "created"  -> "cyan"
      [] status = "manual"   -> "magenta"
      [] OTHER               -> "white"

\* One table: its title and its rows, printed by console.print(table).
Table(c, title, rows) ==
    [c EXCEPT !.out = Append(@, [msg |-> title, args |-> <<>>, rows |-> rows]),
              !.exc = NoExc]

display_pipelines(c, pipelines) ==
    Table(c, "GitLab Pipelines",
          [i \in DOMAIN pipelines |->
             [id |-> ToString(pipelines[i].id),
              style |-> _get_status_style(pipelines[i].status),
              status |-> pipelines[i].status,
              ref |-> pipelines[i].ref,
              sha |-> Take(pipelines[i].sha, 8),
              created_at |-> pipelines[i].created_at]])

display_jobs(c, jobs) ==
    Table(c, "Pipeline Jobs",
          [i \in DOMAIN jobs |->
             [stage |-> jobs[i].stage,
              name |-> jobs[i].name,
              id |-> ToString(jobs[i].id),
              style |-> _get_status_style(jobs[i].status),
              status |-> jobs[i].status]])

-----------------------------------------------------------------------------
(* json.loads                                                              *)

\* The texts json.loads accepts, with their values: a dict is the sequence
\* of its (key, value) pairs in insertion order.
JsonTable ==
    ("{}" :> PyDict(<<>>)) @@
    ("{\"FOO\": \"bar\"}" :> PyDict(<< <<"FOO", "bar">> >>)) @@
    ("{\"A\": \"1\", \"B\": \"x y\"}" :> PyDict(<< <<"A", "1">>, <<"B", "x y">> >>)) @@
    ("[1]" :> PyList(<<1>>))

json_loads(text) ==
    IF text \in DOMAIN JsonTable
    THEN [ok |-> TRUE, v |-> JsonTable[text]]
    ELSE [ok |-> FALSE, v |-> None]

-----------------------------------------------------------------------------
(* The log display of gitlab_helper.py                                     *)

\* print(logs): the log text, verbatim
print_text(c, text) ==
    [c EXCEPT !.out = Append(@, [msg |-> "logs", args |-> <<>>, text |-> text])]

\* console.print(Panel(Syntax(logs, "bash", line_numbers=True), title=...))
print_syntax(c, text, job_id) ==
    [c EXCEPT !.out = Append(@, [msg |-> "Panel(Syntax)", args |-> <<job_id>>,
                                 text |-> text])]

\* The bracket lines around a log and the log between them
print_bracketed(c, text, job_id) ==
    print(print_text(print(c, "--- Logs for Job #", <<job_id>>), text),
          "-----------------------------", <<>>)

\* the display without the `if logs:` test
show_logs_unconditional(c, logs, job_id, raw) ==
    IF raw THEN print_bracketed(c, logs.v, job_id)
    ELSE print_syntax(c, logs.v, job_id)

\* jobs logs (batch), lines 136-147
show_logs_batch(c, logs, job_id, raw) ==
    IF Truthy(logs)
    THEN IF raw THEN print_bracketed(c, logs.v, job_id)
         ELSE print_syntax(c, logs.v, job_id)
    ELSE console_print(c, "No logs found for job", <<job_id>>)

\* the REPL's display given the two renderings of the batch command
show_logs_repl_highlighting(c, logs, job_id, display_raw) ==
    IF Truthy(logs)
    THEN IF display_raw THEN print_bracketed(c, logs.v, job_id)
         ELSE print_syntax(c, logs.v, job_id)
    ELSE console_print(c, "No logs found for job", <<job_id>>)

\* list-jobs and job-logs (interactive)
show_logs_repl(c, logs, job_id, display_raw) ==
    IF Truthy(logs)
    THEN IF display_raw THEN print_text(c, logs.v)
         ELSE print_bracketed(c, logs.v, job_id)
    ELSE console_print(c, "No logs found for job", <<job_id>>)

\* `except ValueError: console.print(fixed)` followed by
\* `except Exception as e: console.print(f"Error: {str(e)}")`.
\* KeyboardInterrupt is no Exception and passes through.
except_clauses(c, fixed) ==
    IF ~Raised(c) \/ c.exc.type = "KeyboardInterrupt" THEN c
    ELSE IF c.exc.type = "ValueError" THEN console_print(c, fixed, <<>>)
    ELSE console_print(c, "Error:", <<c.exc.text>>)

-----------------------------------------------------------------------------
(* The batch commands of gitlab_helper.py and debug_job_logs.py            *)

list_pipelines(c, limit) ==
    Bind(get_pipelines(c, limit), LAMBDA p :
        IF Raised(p) THEN p ELSE display_pipelines(p, p.ret.v))

\* `if pipeline: client.display_pipelines([pipeline]) else: console.print(...)`
show_pipeline_or(c, msg, args) ==
    IF Truthy(c.ret) THEN display_pipelines(c, <<c.ret.v>>)
    ELSE console_print(c, msg, args)

cmd_latest_pipeline(c) ==
    Bind(get_latest_pipeline(c), LAMBDA p :
        IF Raised(p) THEN p ELSE show_pipeline_or(p, "No pipelines found", <<>>))

get_pipeline_status(c, pipeline_id) ==
    Bind(get_pipeline(c, pipeline_id), LAMBDA p :
        IF Raised(p) THEN p
        ELSE show_pipeline_or(p, "Pipeline not found", <<ToString(pipeline_id)>>))

\* "Jobs for this pipeline:" and the jobs (lines 100-102, 214-216, 223-225,
\* 257-259)
jobs_shown(c, pipeline_id) ==
    Bind(console_print(c, "Jobs for this pipeline:", <<>>), LAMBDA h :
    Bind(get_jobs(h, pipeline_id), LAMBDA j :
        IF Raised(j) THEN j ELSE display_jobs(j, j.ret.v)))

\* After a create: the message, the new pipeline and its jobs (lines 95-102);
\* p.ret is the pipeline created.
created_shown(p) ==
    Bind(console_print(p, "Pipeline created successfully with ID:",
                       <<ToString(p.ret.v.id)>>), LAMBDA m :
    Bind(display_pipelines(m, <<p.ret.v>>), LAMBDA d :
        jobs_shown(d, p.ret.v.id)))

\* the variables option, a text that does not parse taken as no variables
batch_variables_lenient(variables) ==
    IF variables # "" /\ json_loads(variables).ok THEN json_loads(variables)
    ELSE [ok |-> TRUE, v |-> None]

\* lines 79-85: the variables option parsed
batch_variables(variables) ==
    IF variables # "" THEN json_loads(variables) ELSE [ok |-> TRUE, v |-> None]

cmd_create_pipeline(c, ref, variables) ==
    Bind(batch_variables(variables), LAMBDA parsed :
        IF ~parsed.ok
        THEN console_print(c, "Error: Variables must be valid JSON", <<>>)
        ELSE Bind(create_pipeline(c, ref, parsed.v), LAMBDA p :
                IF Raised(p) THEN p
                ELSE IF Truthy(p.ret) THEN created_shown(p)
                ELSE console_print(p, "Failed to create pipeline", <<>>)))

list_jobs(c, pipeline_id) ==
    Bind(get_jobs(c, pipeline_id), LAMBDA j :
        IF Raised(j) THEN j
        ELSE IF Truthy(j.ret) THEN display_jobs(j, j.ret.v)
        ELSE console_print(j, "No jobs found for pipeline",
                           <<ToString(pipeline_id)>>))

cmd_get_job_logs(c, job_id, raw) ==
    Bind(get_job_logs(c, PyInt(job_id)), LAMBDA l :
    Bind(IF Raised(l) THEN l
         ELSE show_logs_batch(l, l.ret, ToString(job_id), raw), LAMBDA r :
        IF ~Raised(r) THEN r
        ELSE IF r.exc.type = "ValueError"
        THEN console_print(r, "Error: Job ID is not a valid integer",
                           <<ToString(job_id)>>)
        ELSE console_print(r, "Error:", <<r.exc.text>>)))

\* debug_job_logs(job_id, raw): job_id is the text of sys.argv[1]
debug_job_logs(c, job_id, raw) ==
    Bind(get_job_logs(print(c, "Fetching logs for job ID:", <<job_id>>),
                      PyStr(job_id)), LAMBDA l :
        IF Raised(l) THEN l
        ELSE IF Truthy(l.ret)
        THEN Bind(print(l, "Successfully retrieved logs for job #", <<job_id>>),
                  LAMBDA s :
                     IF raw THEN print_bracketed(s, l.ret.v, job_id)
                     ELSE print_syntax(s, l.ret.v, job_id))
        ELSE print(l, "No logs found for job", <<job_id>>))

-----------------------------------------------------------------------------
(* interactive_mode: one operator per branch of the loop body              *)

\* user_input.lower()
lower(text) == IF text = "EXIT" THEN "exit" ELSE text

\* pipeline_id = Prompt.ask("Enter pipeline ID");
\* current_pipeline_id = int(pipeline_id)
read_pipeline_id(c, pipeline_id) ==
    Bind(int(PyStr(pipeline_id)), LAMBDA i :
        IF i.ok THEN [c EXCEPT !.cp = PyInt(i.v)] ELSE Raise(c, i.exc))

\* "Use current pipeline?" (lines 264-269, 279-286): the current id is kept
\* when there is one and the user confirms it, else one is read.
ask_pipeline_id(c, use_current, pipeline_id) ==
    IF Truthy(c.cp) /\ use_current THEN c ELSE read_pipeline_id(c, pipeline_id)

\* job_id = Prompt.ask("Enter job ID"); current_job_id = int(job_id)
read_job_id(c, job_id) ==
    Bind(int(PyStr(job_id)), LAMBDA i :
        IF i.ok THEN [c EXCEPT !.cj = PyInt(i.v)] ELSE Raise(c, i.exc))

\* lines 332-339
ask_job_id(c, use_current, job_id) ==
    IF Truthy(c.cj) /\ use_current THEN c ELSE read_job_id(c, job_id)

\* 'help', lines 195-199
step_help(c) ==
    console_print(c, "Available commands:",
                  <<"list-pipelines", "latest-pipeline", "create-pipeline",
                    "pipeline-status", "list-jobs", "job-logs">>)

\* lines 209-216: the pipeline selected from the list
select_pipeline_shown(d, pipeline_id) ==
    Bind(read_pipeline_id(d, pipeline_id), LAMBDA a :
        IF Raised(a) THEN a
        ELSE Bind(get_pipeline(a, a.cp.v), LAMBDA g :
                IF Raised(g) \/ ~Truthy(g.ret) THEN g
                ELSE Bind(display_pipelines(g, <<g.ret.v>>), LAMBDA s :
                        jobs_shown(s, a.cp.v))))

\* 'list-pipelines', lines 201-216
step_list_pipelines(c, limit, select_pipeline, pipeline_id) ==
    Bind(int(PyStr(limit)), LAMBDA l :
        IF ~l.ok THEN Raise(c, l.exc)
        ELSE Bind(get_pipelines(c, l.v), LAMBDA p :
                IF Raised(p) THEN p
                ELSE Bind(display_pipelines(p, p.ret.v), LAMBDA d :
                        IF Truthy(p.ret) /\ select_pipeline
                        THEN select_pipeline_shown(d, pipeline_id)
                        ELSE d)))

\* 'latest-pipeline', lines 218-227
step_latest_pipeline(c) ==
    Bind(get_latest_pipeline(c), LAMBDA p :
        IF Raised(p) THEN p
        ELSE IF Truthy(p.ret)
        THEN Bind(display_pipelines(p, <<p.ret.v>>), LAMBDA d :
                jobs_shown([d EXCEPT !.cp = PyInt(p.ret.v.id)], p.ret.v.id))
        ELSE console_print(p, "No pipelines found", <<>>))

\* lines 232-241: the variables asked for and parsed
repl_variables(use_vars, vars_json) ==
    IF use_vars THEN json_loads(vars_json) ELSE [ok |-> TRUE, v |-> None]

\* lines 251-259; p.ret is the pipeline created
repl_created_shown(p) ==
    Bind(console_print(p, "Pipeline created successfully with ID:",
                       <<ToString(p.ret.v.id)>>), LAMBDA m :
    Bind(display_pipelines(m, <<p.ret.v>>), LAMBDA d :
        jobs_shown([d EXCEPT !.cp = PyInt(p.ret.v.id)], p.ret.v.id)))

\* 'create-pipeline', lines 229-261
step_create_pipeline(c, ref, use_vars, vars_json) ==
    Bind(repl_variables(use_vars, vars_json), LAMBDA parsed :
        IF ~parsed.ok
        THEN console_print(c, "Error: Variables must be valid JSON", <<>>)
        ELSE Bind(create_pipeline(c, ref, parsed.v), LAMBDA p :
                IF Raised(p) THEN p
                ELSE IF Truthy(p.ret) THEN repl_created_shown(p)
                ELSE console_print(p, "Failed to create pipeline", <<>>)))

\* 'pipeline-status', lines 263-275
step_pipeline_status(c, use_current, pipeline_id) ==
    Bind(ask_pipeline_id(c, use_current, pipeline_id), LAMBDA a :
        IF Raised(a) THEN a
        ELSE Bind(get_pipeline(a, a.cp.v), LAMBDA p :
                IF Raised(p) THEN p
                ELSE show_pipeline_or(p, "Pipeline not found",
                                      <<ToString(a.cp.v)>>)))

\* The log of the job just asked for, fetched and shown (lines 298-318,
\* 341-361), with the two except clauses that close the try; `asked` is the
\* context after the job id was asked for.
job_logs_try(asked, display_raw) ==
    Bind(asked, LAMBDA a :
    Bind(IF Raised(a) THEN a ELSE get_job_logs(a, a.cj), LAMBDA l :
    Bind(IF Raised(l) THEN l
         ELSE show_logs_repl(l, l.ret, ToString(a.cj.v), display_raw), LAMBDA r :
        except_clauses(r, "Error: Job ID must be an integer"))))

\* lines 289-324: the jobs shown, and one selected
jobs_listed(j, select_job, job_id, display_raw) ==
    IF Truthy(j.ret)
    THEN Bind(display_jobs(j, j.ret.v), LAMBDA d :
            IF select_job
            THEN job_logs_try(read_job_id(d, job_id), display_raw)
            ELSE d)
    ELSE console_print(j, "No jobs found for pipeline", <<ToString(j.cp.v)>>)

\* 'list-jobs', lines 277-328
step_list_jobs(c, use_current, pipeline_id, select_job, job_id, display_raw) ==
    Bind(ask_pipeline_id(c, use_current, pipeline_id), LAMBDA a :
    Bind(IF Raised(a) THEN a ELSE get_jobs(a, a.cp.v), LAMBDA j :
    Bind(IF Raised(j) THEN j
         ELSE jobs_listed(j, select_job, job_id, display_raw), LAMBDA r :
        except_clauses(r, "Error: Pipeline ID must be an integer"))))

\* 'job-logs', lines 330-365
step_job_logs(c, use_current, job_id, display_raw) ==
    job_logs_try(ask_job_id(c, use_current, job_id), display_raw)

\* the else branch, lines 367-369
step_unknown(c, user_input) ==
    Bind(console_print(c, "Unknown command:", <<user_input>>), LAMBDA m :
        IF Raised(m) THEN m
        ELSE console_print(m, "Type 'help' to see available commands", <<>>))

\* The end of an iteration (lines 371-374): KeyboardInterrupt leaves the
\* loop, any other exception is printed.  An exception raised by that print
\* is raised in the except clause and leaves interactive_mode.
end_of_iteration(body) ==
    Bind(body, LAMBDA c :
        IF ~Raised(c) THEN [c EXCEPT !.ret = PyStr("continue")]
        ELSE IF c.exc.type = "KeyboardInterrupt"
        THEN [c EXCEPT !.ret = PyStr("break"), !.exc = NoExc]
        ELSE Bind(console_print(c, "Error:", <<c.exc.text>>), LAMBDA h :
                IF Raised(h) THEN [h EXCEPT !.ret = PyStr("raise")]
                ELSE [h EXCEPT !.ret = PyStr("continue")]))

-----------------------------------------------------------------------------
(* The environment's choices                                               *)

\* What a configuration path may hold.
FileStates == {"absent", "unreadable", "empty", "noproject", "valid", "otherproject"}

\* yaml.safe_load of a file
yaml_load(state) ==
    CASE state = "empty"        -> None
      [] state = "noproject"    -> PyDict([url |-> TRUE, token |-> TRUE])
      [] state = "valid"        -> PyDict([url |-> TRUE, token |-> TRUE,
                                           project_id |-> "group/project"])
      [] state = "otherproject" -> PyDict([url |-> TRUE, token |-> TRUE,
                                           project_id |-> "group/gone"])

\* The network's outcomes for the requests of one command: all succeed, or
\* the k-th is the first to fail (no command sends a request after a failed
\* one, so what follows the first failure is never read).
NetSeqs(n) ==
    {<<>>} \cup {[i \in 1..k |-> IF i < k THEN "ok" ELSE f] :
                    k \in 1..n, f \in NetOutcomes \ {"ok"}}

\* What the user may type
Commands == {"exit", "quit", "EXIT", "help", "list-pipelines", "latest-pipeline",
             "create-pipeline", "pipeline-status", "list-jobs", "job-logs",
             "bogus", "[/x]"}
LimitTexts == {"1", "3", "abc"}
PipelineIdTexts == {"1", " 2", "9", "abc", "[/x]"}
JobIdTexts == {"11", "12", "9", "abc", "[/x]"}
RefTexts == {"main", "nope"}
VarsTexts == DOMAIN JsonTable \cup {"not json", ""}
Limits == 0..3
PipelineIds == {1, 2, 9}
JobIds == {11, 12, 9}

\* The pipelines the project has when the model starts, most recent first
BasePipelines == <<Pipeline(2, "running", "main"), Pipeline(1, "success", "main")>>

-----------------------------------------------------------------------------
(* The process: start-up                                                   *)

\* How the process uses the client: a batch command, the interactive
\* session, the debug script, or a caller that imports gitlab_client and
\* calls one facade operation.
Cmds == {"batch", "interactive", "debug", "import"}

NoLast == [op |-> "none", in |-> <<>>, calls |-> <<>>, reqs |-> <<>>,
           out |-> <<>>, exc |-> NoExc, flow |-> "none"]

\* What a command or step did: its inputs, the facade calls and requests it
\* made, what it printed, the exception that left it, and how it ended.
Did(op, in, c, flow) ==
    [op |-> op, in |-> in, calls |-> c.calls, reqs |-> c.reqs, out |-> c.out,
     exc |-> c.exc, flow |-> flow]

Init ==
    /\ \E k \in 1..(Len(BasePipelines) + 1) :
          remote = SubSeq(BasePipelines, k, Len(BasePipelines))
    /\ phase = "start"
    /\ cmd \in Cmds
    /\ config = None
    /\ gl = None
    /\ project = None
    /\ current_pipeline_id = None
    /\ current_job_id = None
    /\ last = NoLast

\* _load_config: the first path that exists and loads gives the
\* configuration; a path that fails to load is reported and skipped; with
\* no path left, sys.exit(1).
_load_config(c, files) ==
    LET good == {i \in DOMAIN files : files[i] \notin {"absent", "unreadable"}}
        first == IF good = {} THEN Len(files) + 1
                 ELSE CHOOSE i \in good : \A k \in good : i <= k
        bad == {i \in 1..(first - 1) : files[i] = "unreadable"}
        errs == [c EXCEPT !.out = [i \in 1..Cardinality(bad) |->
                                     [msg |-> "Error loading config", args |-> <<>>]]]
    IN IF good = {}
       THEN Raise(console_print(errs, "No valid configuration found", <<>>),
                  Exc("SystemExit", "1"))
       ELSE Return(errs, yaml_load(files[first]))

\* _init_gitlab
_init_gitlab(c, cfg) ==
    IF cfg.t = "dict" THEN Return(c, PyObj("gitlab", cfg.v))
    ELSE Raise(console_print(c, "Failed to initialize GitLab client:",
                             <<"'NoneType' object is not subscriptable">>),
               Exc("SystemExit", "1"))

\* _get_project that reports the failure and returns instead of exiting
_get_project_returns(c, cfg) ==
    IF "project_id" \notin DOMAIN cfg.v
    THEN Return(console_print(c, "Failed to get project:", <<"'project_id'">>), None)
    ELSE Bind(Request(c, "projects.get", cfg.v.project_id), LAMBDA r :
            IF r.resp.ok THEN Return(r, r.resp.v)
            ELSE Return(console_print(r, "Failed to get project:", <<r.resp.err>>),
                        None))

\* _get_project
_get_project(c, cfg) ==
    IF "project_id" \notin DOMAIN cfg.v
    THEN Raise(console_print(c, "Failed to get project:", <<"'project_id'">>),
               Exc("SystemExit", "1"))
    ELSE Bind(Request(c, "projects.get", cfg.v.project_id), LAMBDA r :
            IF r.resp.ok THEN Return(r, r.resp.v)
            ELSE Raise(console_print(r, "Failed to get project:", <<r.resp.err>>),
                       Exc("SystemExit", "1")))

\* GitLabClient.__init__, first statement
LoadConfig ==
    /\ phase = "start"
    /\ \E files \in [1..3 -> FileStates] :
         \E c \in {_load_config(Ctx(remote, <<>>, None, None), files)} :
            /\ config' = c.ret
            /\ phase' = IF Raised(c) THEN "sysexit" ELSE "config"
            /\ last' = Did("_load_config", files, c, phase')
    /\ UNCHANGED <<remote, cmd, gl, project, current_pipeline_id, current_job_id>>

\* GitLabClient.__init__, second statement
InitGitlab ==
    /\ phase = "config"
    /\ \E c \in {_init_gitlab(Ctx(remote, <<>>, None, None), config)} :
          /\ gl' = c.ret
          /\ phase' = IF Raised(c) THEN "sysexit" ELSE "client"
          /\ last' = Did("_init_gitlab", <<>>, c, phase')
    /\ UNCHANGED <<remote, cmd, config, project, current_pipeline_id, current_job_id>>

\* GitLabClient.__init__, third statement
GetProject ==
    /\ phase = "client"
    /\ \E net \in NetSeqs(1) :
         \E c \in {_get_project(Ctx(remote, net, None, None), config)} :
            /\ project' = c.ret
            /\ phase' = IF Raised(c) THEN "sysexit" ELSE "ready"
            /\ last' = Did("_get_project", <<>>, c, phase')
    /\ UNCHANGED <<remote, cmd, config, gl, current_pipeline_id, current_job_id>>

\* The program is run again.
Restart ==
    /\ phase \in {"returned", "sysexit", "crashed"}
    /\ phase' = "start"
    /\ cmd' \in Cmds
    /\ config' = None
    /\ gl' = None
    /\ project' = None
    /\ current_pipeline_id' = None
    /\ current_job_id' = None
    /\ last' = NoLast
    /\ UNCHANGED remote

-----------------------------------------------------------------------------
(* The process: batch commands and the debug script                        *)

\* A command body that ran: the process ends, by returning or by the
\* exception that left the body.
Ran(op, in, body) ==
    \E c \in {body} :
       /\ remote' = c.remote
       /\ phase' = IF Raised(c) THEN "crashed" ELSE "returned"
       /\ last' = Did(op, in, c, phase')
       /\ UNCHANGED <<cmd, config, gl, project,
                      current_pipeline_id, current_job_id>>

Batch == phase = "ready" /\ cmd = "batch"
Start(net) == Ctx(remote, net, None, None)

BatchListPipelines ==
    /\ Batch
    /\ \E limit \in Limits, net \in NetSeqs(1) :
         Ran("pipelines list", [limit |-> limit], list_pipelines(Start(net), limit))

BatchLatestPipeline ==
    /\ Batch
    /\ \E net \in NetSeqs(1) :
         Ran("pipelines latest", <<>>, cmd_latest_pipeline(Start(net)))

BatchPipelineStatus ==
    /\ Batch
    /\ \E pipeline_id \in PipelineIds, net \in NetSeqs(1) :
         Ran("pipelines status", [pipeline_id |-> pipeline_id],
             get_pipeline_status(Start(net), pipeline_id))

BatchCreatePipeline ==
    /\ Batch
    /\ Len(remote) < MaxPipelines
    /\ \E ref \in RefTexts, variables \in VarsTexts, net \in NetSeqs(3) :
         Ran("pipelines create", [ref |-> ref, variables |-> variables],
             cmd_create_pipeline(Start(net), ref, variables))

BatchListJobs ==
    /\ Batch
    /\ \E pipeline_id \in PipelineIds, net \in NetSeqs(2) :
         Ran("jobs list", [pipeline_id |-> pipeline_id],
             list_jobs(Start(net), pipeline_id))

BatchJobLogs ==
    /\ Batch
    /\ \E job_id \in JobIds, raw \in BOOLEAN, net \in NetSeqs(2) :
         Ran("jobs logs", [job_id |-> job_id, raw |-> raw],
             cmd_get_job_logs(Start(net), job_id, raw))

\* debug_job_logs.py: __main__ passes sys.argv[1] and raw=True
DebugJobLogs ==
    /\ phase = "ready" /\ cmd = "debug"
    /\ \E job_id \in JobIdTexts, net \in NetSeqs(2) :
         Ran("debug_job_logs", [job_id |-> job_id, raw |-> TRUE],
             debug_job_logs(Start(net), job_id, TRUE))

-----------------------------------------------------------------------------
(* The process: one facade operation called by an importing caller         *)

Import == phase = "ready" /\ cmd = "import"

\* The ids a caller may pass: ints, and texts as sys.argv gives them
JobIdValues == {PyInt(j) : j \in JobIds} \cup {PyStr(t) : t \in JobIdTexts}
\* The variables a caller may pass: none, or what json.loads gave
VariablesValues == {None} \cup {JsonTable[t] : t \in DOMAIN JsonTable}

FacadeGetPipelines ==
    /\ Import
    /\ \E limit \in Limits, net \in NetSeqs(1) :
         Ran("get_pipelines", [limit |-> limit], get_pipelines(Start(net), limit))

FacadeGetPipeline ==
    /\ Import
    /\ \E pipeline_id \in PipelineIds, net \in NetSeqs(1) :
         Ran("get_pipeline", [pipeline_id |-> pipeline_id],
             get_pipeline(Start(net), pipeline_id))

FacadeGetLatestPipeline ==
    /\ Import
    /\ \E net \in NetSeqs(1) :
         Ran("get_latest_pipeline", <<>>, get_latest_pipeline(Start(net)))

FacadeCreatePipeline ==
    /\ Import
    /\ Len(remote) < MaxPipelines
    /\ \E ref \in RefTexts, variables \in VariablesValues, net \in NetSeqs(1) :
         Ran("create_pipeline", [ref |-> ref, variables |-> variables],
             create_pipeline(Start(net), ref, variables))

FacadeGetJobs ==
    /\ Import
    /\ \E pipeline_id \in PipelineIds, net \in NetSeqs(2) :
         Ran("get_jobs", [pipeline_id |-> pipeline_id],
             get_jobs(Start(net), pipeline_id))

FacadeGetJob ==
    /\ Import
    /\ \E job_id \in JobIdValues, net \in NetSeqs(1) :
         Ran("get_job", [job_id |-> job_id], get_job(Start(net), job_id))

FacadeGetJobLogs ==
    /\ Import
    /\ \E job_id \in JobIdValues, net \in NetSeqs(2) :
         Ran("get_job_logs", [job_id |-> job_id], get_job_logs(Start(net), job_id))

-----------------------------------------------------------------------------
(* The process: the interactive session                                    *)

Repl == phase = "ready" /\ cmd = "interactive"
Session(net) == Ctx(remote, net, current_pipeline_id, current_job_id)

\* One iteration of the loop that ran the branch of user_input and came to
\* its end: back to the prompt, or out of interactive_mode by the exception
\* raised in the except clause.
Stepped(op, in, body) ==
    \E c \in {end_of_iteration(body)} :
       /\ remote' = c.remote
       /\ current_pipeline_id' = c.cp
       /\ current_job_id' = c.cj
       /\ phase' = CASE c.ret.v = "continue" -> "stepped"
                     [] c.ret.v = "break"    -> "returned"
                     [] c.ret.v = "raise"    -> "crashed"
       /\ last' = Did(op, in,
                      IF c.ret.v = "break"
                      THEN console_print(c, "Goodbye!", <<>>) ELSE c,
                      c.ret.v)
       /\ UNCHANGED <<cmd, config, gl, project>>

\* session.prompt() is shown again: the next iteration begins.
Prompt ==
    /\ phase = "stepped"
    /\ phase' = "ready"
    /\ last' = NoLast
    /\ UNCHANGED <<remote, cmd, config, gl, project,
                   current_pipeline_id, current_job_id>>

\* 'exit' or 'quit': break, then the goodbye line
ReplExit ==
    /\ Repl
    /\ \E u \in Commands :
         /\ lower(u) \in {"exit", "quit"}
         /\ remote' = remote
         /\ phase' = "returned"
         /\ last' = Did("exit", [user_input |-> u],
                        console_print(Session(<<>>), "Goodbye!", <<>>), "break")
         /\ UNCHANGED <<cmd, config, gl, project,
                        current_pipeline_id, current_job_id>>

\* Ctrl-C at the prompt: session.prompt raises KeyboardInterrupt
ReplInterrupt ==
    /\ Repl
    /\ Stepped("interrupt", <<>>, Raise(Session(<<>>), Exc("KeyboardInterrupt", "")))

\* Ctrl-D at the prompt: session.prompt raises EOFError
ReplEOF ==
    /\ Repl
    /\ Stepped("eof", <<>>, Raise(Session(<<>>), Exc("EOFError", "")))

ReplHelp ==
    /\ Repl
    /\ \E u \in Commands :
         /\ lower(u) = "help"
         /\ Stepped("help", [user_input |-> u], step_help(Session(<<>>)))

ReplListPipelines ==
    /\ Repl
    /\ \E u \in Commands, limit \in LimitTexts, select_pipeline \in BOOLEAN :
       \E pipeline_id \in (IF select_pipeline THEN PipelineIdTexts ELSE {""}),
          net \in NetSeqs(4) :
         /\ lower(u) = "list-pipelines"
         /\ Stepped("list-pipelines",
                    [user_input |-> u, limit |-> limit,
                     select_pipeline |-> select_pipeline,
                     pipeline_id |-> pipeline_id],
                    step_list_pipelines(Session(net), limit, select_pipeline,
                                        pipeline_id))

ReplLatestPipeline ==
    /\ Repl
    /\ \E u \in Commands, net \in NetSeqs(3) :
         /\ lower(u) = "latest-pipeline"
         /\ Stepped("latest-pipeline", [user_input |-> u],
                    step_latest_pipeline(Session(net)))

ReplCreatePipeline ==
    /\ Repl
    /\ Len(remote) < MaxPipelines
    /\ \E u \in Commands, ref \in RefTexts, use_vars \in BOOLEAN :
       \E vars_json \in (IF use_vars THEN VarsTexts ELSE {""}),
          net \in NetSeqs(3) :
         /\ lower(u) = "create-pipeline"
         /\ Stepped("create-pipeline",
                    [user_input |-> u, ref |-> ref, use_vars |-> use_vars,
                     vars_json |-> vars_json],
                    step_create_pipeline(Session(net), ref, use_vars, vars_json))

\* The answers to "Use current ...?": asked only when there is a current id
UseCurrent(id) == IF Truthy(id) THEN BOOLEAN ELSE {FALSE}

ReplPipelineStatus ==
    /\ Repl
    /\ \E u \in Commands, use_current \in UseCurrent(current_pipeline_id) :
       \E pipeline_id \in (IF use_current THEN {""} ELSE PipelineIdTexts),
          net \in NetSeqs(1) :
         /\ lower(u) = "pipeline-status"
         /\ Stepped("pipeline-status",
                    [user_input |-> u, use_current |-> use_current,
                     pipeline_id |-> pipeline_id],
                    step_pipeline_status(Session(net), use_current, pipeline_id))

ReplListJobs ==
    /\ Repl
    /\ \E u \in Commands, use_current \in UseCurrent(current_pipeline_id),
          select_job \in BOOLEAN :
       \E pipeline_id \in (IF use_current THEN {""} ELSE PipelineIdTexts),
          job_id \in (IF select_job THEN JobIdTexts ELSE {""}),
          display_raw \in (IF select_job THEN BOOLEAN ELSE {FALSE}),
          net \in NetSeqs(4) :
         /\ lower(u) = "list-jobs"
         /\ Stepped("list-jobs",
                    [user_input |-> u, use_current |-> use_current,
                     pipeline_id |-> pipeline_id, select_job |-> select_job,
                     job_id |-> job_id, display_raw |-> display_raw],
                    step_list_jobs(Session(net), use_current, pipeline_id,
                                   select_job, job_id, display_raw))

ReplJobLogs ==
    /\ Repl
    /\ \E u \in Commands, use_current \in UseCurrent(current_job_id),
          display_raw \in BOOLEAN :
       \E job_id \in (IF use_current THEN {""} ELSE JobIdTexts),
          net \in NetSeqs(2) :
         /\ lower(u) = "job-logs"
         /\ Stepped("job-logs",
                    [user_input |-> u, use_current |-> use_current,
                     job_id |-> job_id, display_raw |-> display_raw],
                    step_job_logs(Session(net), use_current, job_id, display_raw))

KnownCommands == {"exit", "quit", "help", "list-pipelines", "latest-pipeline",
                  "create-pipeline", "pipeline-status", "list-jobs", "job-logs"}

ReplUnknown ==
    /\ Repl
    /\ \E u \in Commands :
         /\ lower(u) \notin KnownCommands
         /\ Stepped("unknown", [user_input |-> u], step_unknown(Session(<<>>), u))

Next ==
    \/ LoadConfig \/ InitGitlab \/ GetProject \/ Restart
    \/ BatchListPipelines \/ BatchLatestPipeline \/ BatchPipelineStatus
    \/ BatchCreatePipeline \/ BatchListJobs \/ BatchJobLogs
    \/ DebugJobLogs
    \/ FacadeGetPipelines \/ FacadeGetPipeline \/ FacadeGetLatestPipeline
    \/ FacadeCreatePipeline \/ FacadeGetJobs \/ FacadeGetJob \/ FacadeGetJobLogs
    \/ Prompt \/ ReplExit \/ ReplInterrupt \/ ReplEOF \/ ReplHelp
    \/ ReplListPipelines \/ ReplLatestPipeline \/ ReplCreatePipeline
    \/ ReplPipelineStatus \/ ReplListJobs \/ ReplJobLogs \/ ReplUnknown

Spec == Init /\ [][Next]_vars

-----------------------------------------------------------------------------
(* Reading what a command did                                              *)

Calls == {last.calls[k] : k \in DOMAIN last.calls}
CallsOf(fn) == {call \in Calls : call.fn = fn}
Failed(call) == \E q \in DOMAIN call.reqs : call.reqs[q].outcome # "ok"
Sent(call, kind) == {q \in DOMAIN call.reqs : call.reqs[q].kind = kind}
Printed(msg) == \E k \in DOMAIN last.out : last.out[k].msg = msg

FacadeOps == {"get_pipelines", "get_pipeline", "get_latest_pipeline",
              "create_pipeline", "get_jobs", "get_job", "get_job_logs"}

\* The empty/absent value of an operation
IsEmptyResult(fn, ret) ==
    CASE fn \in {"get_pipelines", "get_jobs"} -> ret.t = "list" /\ Len(ret.v) = 0
      [] fn = "get_job_logs"                  -> ret.t = "text" /\ Len(ret.v) = 0
      [] OTHER                                -> ret.t = "none"

-----------------------------------------------------------------------------
(* C1: every facade operation whose remote call fails (transport,          *)
(* authentication, not found, rejected) returns normally with its empty    *)
(* value: [] for get_pipelines and get_jobs, "" for get_job_logs, None for *)
(* the others; no exception reaches the caller.                            *)
C1_FailureGivesEmpty ==
    \A call \in Calls :
        (call.fn \in FacadeOps /\ Failed(call))
            => ~call.raised /\ IsEmptyResult(call.fn, call.ret)

\* get_job_logs found the job, the trace request then failed for
\* authentication, and "" came back.
C1_Witness ==
    \E call \in CallsOf("get_job_logs") :
        /\ Len(call.reqs) = 2
        /\ call.reqs[2].kind = "job.trace" /\ call.reqs[2].outcome = "auth"
        /\ ~call.raised /\ IsEmptyResult("get_job_logs", call.ret)

-----------------------------------------------------------------------------
\* An id text that int() rejects
NonNumeric(call) == call.arg.t = "str" /\ call.arg.v \notin DOMAIN IntTable
\* A numeric id of a job the service does not have
MissingJob(call) ==
    \E q \in Sent(call, "jobs.get") : call.reqs[q].outcome = "notfound"
JobCalls == CallsOf("get_job") \cup CallsOf("get_job_logs")

-----------------------------------------------------------------------------
(* C3: get_pipelines(limit=N) returns at most N entries, all of them       *)
(* pipelines of the project, the most recent ones, most recent first (ids  *)
(* grow with time), and as many as N and the project allow unless the      *)
(* request failed.                                                         *)
C3_AtMostLimitMostRecentFirst ==
    \A call \in CallsOf("get_pipelines") :
        LET N == call.arg.v
            got == call.ret.v
            ids == {got[i].id : i \in DOMAIN got}
        IN /\ Len(got) <= N
           /\ \A i \in DOMAIN got : HasPipeline(remote, got[i].id)
           /\ \A i, j \in DOMAIN got : i < j => got[i].id > got[j].id
           /\ \A k \in DOMAIN remote : \A i \in DOMAIN got :
                 remote[k].id \notin ids => remote[k].id < got[i].id
           /\ ~Failed(call) =>
                 Len(got) = IF N < Len(remote) THEN N ELSE Len(remote)

\* A limit below the number of pipelines: the single most recent one came
\* back.
C3_Witness ==
    \E call \in CallsOf("get_pipelines") :
        /\ call.arg.v = 1 /\ Len(remote) >= 2
        /\ Len(call.ret.v) = 1 /\ call.ret.v[1].id = remote[1].id

-----------------------------------------------------------------------------
\* The map rebuilt from the records passed to the remote call
Rebuild(records) == [i \in DOMAIN records |-> <<records[i].key, records[i].value>>]
\* The 'variables' of the create requests a call sent
CreateVariables(call) ==
    {call.reqs[q].arg.variables : q \in Sent(call, "pipelines.create")}
MapCalls == {call \in CallsOf("create_pipeline") : call.arg.variables.t = "dict"}

(* C4, as stated: create_pipeline with a map of size K, K = 0 included,    *)
(* passes a list of exactly K {key, value} records from which the map can  *)
(* be rebuilt.                                                             *)
C4_KRecordsForEveryK ==
    \A call \in MapCalls :
        /\ CreateVariables(call) # {}
        /\ \A v \in CreateVariables(call) :
              /\ v.t = "list"
              /\ Len(v.v) = Len(call.arg.variables.v)
              /\ Rebuild(v.v) = call.arg.variables.v

(* C4, amended: for K >= 1 the remote create call receives a list of       *)
(* exactly K {key, value} records, each carrying the original key and      *)
(* value, from which the map can be rebuilt; for K = 0 it receives no list *)
(* (None), as when no map is given.                                        *)
C4_KRecordsForNonEmptyMap ==
    \A call \in MapCalls :
        /\ CreateVariables(call) # {}
        /\ \A v \in CreateVariables(call) :
              IF Len(call.arg.variables.v) = 0 THEN v.t = "none"
              ELSE /\ v.t = "list"
                   /\ Len(v.v) = Len(call.arg.variables.v)
                   /\ Rebuild(v.v) = call.arg.variables.v

\* A map of two variables went out as two records.
C4_Witness ==
    \E call \in MapCalls : \E v \in CreateVariables(call) :
        /\ Len(call.arg.variables.v) = 2
        /\ v.t = "list" /\ Len(v.v) = 2
        /\ v.v[2] = [key |-> "B", value |-> "x y"]

-----------------------------------------------------------------------------
\* The raw log display (jobs logs with raw=True, debug_job_logs) of a job
\* the service does not have
RawLogsOfMissingJob ==
    /\ last.op \in {"jobs logs", "debug_job_logs"}
    /\ last.in.raw
    /\ \E call \in CallsOf("get_job_logs") : MissingJob(call)

(* C5, as stated: get_job_logs of a job that does not exist returns "" and *)
(* the raw display prints the header and footer bracket lines with empty   *)
(* content between them.                                                   *)
C5_BracketLinesAroundNothing ==
    RawLogsOfMissingJob =>
        /\ \A call \in CallsOf("get_job_logs") :
              ~call.raised /\ IsEmptyResult("get_job_logs", call.ret)
        /\ Printed("--- Logs for Job #")
        /\ Printed("-----------------------------")

(* C5, amended: get_job_logs of a job that does not exist returns "" and   *)
(* not an error, and the raw display that follows prints the "No logs      *)
(* found for job" line and neither bracket line nor any log content.       *)
C5_NoLogsFoundLine ==
    RawLogsOfMissingJob =>
        /\ \A call \in CallsOf("get_job_logs") :
              ~call.raised /\ IsEmptyResult("get_job_logs", call.ret)
        /\ phase = "returned"
        /\ last.out[Len(last.out)].msg = "No logs found for job"
        /\ ~Printed("--- Logs for Job #")
        /\ ~Printed("-----------------------------")
        /\ ~Printed("logs")

\* jobs logs 9 with raw=True ended on the "No logs found" line.
C5_Witness ==
    /\ RawLogsOfMissingJob
    /\ last.op = "jobs logs"
    /\ Printed("No logs found for job")

-----------------------------------------------------------------------------
StartupOps == {"_load_config", "_init_gitlab", "_get_project"}
HasHandle == project.t = "project"

\* The three steps run in order, a failed step is the last one, and nothing
\* runs without the project handle.
C6_State ==
    /\ phase = "start"  => config = None /\ gl = None /\ project = None
    /\ phase = "config" => gl = None /\ project = None
    /\ phase = "client" => gl.t = "gitlab" /\ project = None
    /\ gl.t = "gitlab" => config.t = "dict"
    /\ HasHandle => gl.t = "gitlab"
    /\ phase = "ready" => HasHandle
    /\ last.op \notin StartupOps \cup {"none"} => HasHandle
    /\ last.calls # <<>> => HasHandle
    /\ last.op = "_load_config" =>
          /\ gl = None /\ project = None /\ last.reqs = <<>>
          /\ (\A i \in DOMAIN last.in : last.in[i] \in {"absent", "unreadable"})
                => phase = "sysexit"
    /\ last.op = "_init_gitlab" =>
          /\ project = None /\ last.reqs = <<>>
          /\ config.t # "dict" => phase = "sysexit" /\ gl = None
    /\ last.op = "_get_project" =>
          ((last.reqs = <<>> \/ last.reqs[1].outcome # "ok")
                => phase = "sysexit" /\ project = None)
    /\ phase = "sysexit" =>
          /\ last.op \in StartupOps
          /\ last.exc = Exc("SystemExit", "1")
          /\ ~HasHandle

\* sys.exit is reached from the three start-up steps only, and after it the
\* process does nothing more.
C6_Step ==
    /\ phase' = "sysexit" => phase \in {"start", "config", "client"}
    /\ phase = "sysexit" => phase' = "start"
    /\ phase' = "config" => phase = "start"
    /\ phase' = "client" => phase = "config"
    /\ (phase' = "ready" /\ phase # "stepped") => phase = "client"

(* C6: constructing the facade loads the configuration, builds the remote  *)
(* client and fetches the project, in this order; a step that fails ends   *)
(* the process by sys.exit(1) and no later step runs, so no facade         *)
(* operation runs without a project handle; sys.exit is reached from these *)
(* three steps only.                                                       *)
C6_FailFastStartup == [](C6_State) /\ [][C6_Step]_vars

\* The project fetch failed for authentication and the process exited
\* with the client built and no project handle.
C6_Witness ==
    /\ phase = "sysexit" /\ last.op = "_get_project"
    /\ last.reqs # <<>> /\ last.reqs[1].outcome = "auth"
    /\ gl.t = "gitlab" /\ project = None

-----------------------------------------------------------------------------
(* C7: in the interactive session an exception raised inside an iteration  *)
(* is caught and printed and the loop goes on to the next prompt; the      *)
(* session ends only on 'exit', 'quit' or a keyboard interrupt, by leaving *)
(* the loop and printing the goodbye line, never by an exception.          *)
C7_SessionNeverCrashes ==
    cmd = "interactive" =>
        /\ phase # "crashed"
        /\ last.flow # "raise"
        /\ phase = "returned" =>
              /\ last.op \in {"exit", "interrupt"}
              /\ Printed("Goodbye!")

-----------------------------------------------------------------------------
\* Pipeline creation given a variables text that is no JSON
BadJsonCreate ==
    \/ /\ last.op = "pipelines create"
       /\ last.in.variables # ""
       /\ last.in.variables \notin DOMAIN JsonTable
    \/ /\ last.op = "create-pipeline"
       /\ last.in.use_vars
       /\ last.in.vars_json \notin DOMAIN JsonTable

(* C8: when the variables text given to pipeline creation is not valid     *)
(* JSON, in `pipelines create` and in the REPL's create-pipeline, the      *)
(* error is reported, the command or step ends there (the batch command    *)
(* returns, the REPL goes back to the prompt), and no request, so no       *)
(* create-pipeline request, is sent.                                       *)
C8_BadJsonAbortsStep ==
    BadJsonCreate =>
        /\ last.out = <<[msg |-> "Error: Variables must be valid JSON",
                         args |-> <<>>]>>
        /\ last.reqs = <<>>
        /\ last.calls = <<>>
        /\ last.exc = NoExc
        /\ phase = IF last.op = "pipelines create" THEN "returned" ELSE "stepped"

\* The REPL's create-pipeline was given "not json" and went back to the
\* prompt.
C8_Witness ==
    /\ BadJsonCreate
    /\ last.op = "create-pipeline" /\ last.in.vars_json = "not json"
    /\ phase = "stepped" /\ last.reqs = <<>>

-----------------------------------------------------------------------------
\* The documented styles
DocumentedStyle ==
    ("success" :> "green") @@ ("failed" :> "red") @@ ("canceled" :> "red") @@
    ("running" :> "blue") @@ ("pending" :> "yellow") @@ ("skipped" :> "grey") @@
    ("created" :> "cyan") @@ ("manual" :> "magenta")

\* The status values the service may send: the eight known ones and two
\* the table does not know
Statuses == DOMAIN DocumentedStyle \cup {"scheduled", "waiting_for_resource"}

\* The rows of the tables printed
Rows ==
    UNION {{last.out[k].rows[i] : i \in DOMAIN last.out[k].rows} :
             k \in {k \in DOMAIN last.out :
                      last.out[k].msg \in {"GitLab Pipelines", "Pipeline Jobs"}}}

(* C9: _get_status_style gives each of the eight known statuses its fixed  *)
(* style and every other status the neutral style 'white', and it never    *)
(* raises: a table is printed for whatever statuses the service sends.     *)
C9_StatusStyleTotal ==
    /\ \A row \in Rows :
          row.style = IF row.status \in DOMAIN DocumentedStyle
                      THEN DocumentedStyle[row.status] ELSE "white"
    /\ last.op \in {"pipelines list", "pipelines status", "pipelines latest"}
          => last.exc = NoExc /\ phase = "returned"

\* One table showed a manual pipeline in magenta and a pipeline of an
\* unknown status in white.
C9_Witness ==
    /\ \E row \in Rows : row.status = "manual" /\ row.style = "magenta"
    /\ \E row \in Rows : row.status = "scheduled" /\ row.style = "white"

\* The project in any two statuses, the client constructed
InitStyle ==
    /\ \E s1, s2 \in Statuses :
          remote = <<Pipeline(2, s2, "main"), Pipeline(1, s1, "main")>>
    /\ phase = "ready"
    /\ cmd = "batch"
    /\ config = yaml_load("valid")
    /\ gl = PyObj("gitlab", config.v)
    /\ project = PyObj("project", [id |-> "group/project"])
    /\ current_pipeline_id = None
    /\ current_job_id = None
    /\ last = NoLast

NextStyle == BatchListPipelines \/ BatchLatestPipeline \/ BatchPipelineStatus

SpecStyle == InitStyle /\ [][NextStyle]_vars

-----------------------------------------------------------------------------
\* Every pipeline lookup is answered from what the service holds now.
C10_Fresh ==
    \A call \in CallsOf("get_pipeline") :
        (call.reqs[1].outcome \in {"ok", "notfound"}) =>
            /\ call.reqs[1].outcome = "ok" <=> HasPipeline(remote, call.arg.v)
            /\ call.reqs[1].outcome = "ok" =>
                  call.ret = PyObj("pipeline", PipelineOf(remote, call.arg.v))
            /\ call.reqs[1].outcome = "notfound" => call.ret = None

\* The pipelines change only by one added in front by a create_pipeline
\* that succeeded.
C10_Frame ==
    remote' # remote =>
        \E k \in DOMAIN last'.calls :
            /\ last'.calls[k].fn = "create_pipeline"
            /\ last'.calls[k].ret.t = "pipeline"
            /\ remote' = <<last'.calls[k].ret.v>> \o remote
            /\ ~HasPipeline(remote, last'.calls[k].ret.v.id)

(* C10: the pipelines on the remote service change only by pipelines added *)
(* through create_pipeline; every other facade operation and every display *)
(* leaves them as they are, and no entity is kept between calls: every     *)
(* lookup is answered from what the service holds at that moment.          *)
C10_OnlyCreateChangesRemote == [](C10_Fresh) /\ [][C10_Frame]_vars

\* A REPL create-pipeline added pipeline 3 and the lookup that followed in
\* the same step found it.
C10_Witness ==
    /\ last.op = "create-pipeline"
    /\ Len(remote) = 3
    /\ \E call \in CallsOf("get_pipeline") :
          call.arg.v = 3 /\ call.ret.t = "pipeline" /\ call.ret.v.id = 3

-----------------------------------------------------------------------------
(* C11: get_jobs resolves the pipeline first: its first request is the     *)
(* lookup of that pipeline, a job-list request is sent only after a lookup *)
(* that succeeded, and when the pipeline is not found or its lookup fails  *)
(* get_jobs returns the empty list having sent no job-list request.        *)
C11_PipelineResolvedFirst ==
    \A call \in CallsOf("get_jobs") :
        /\ Len(call.reqs) \in {1, 2}
        /\ call.reqs[1].kind = "pipelines.get"
        /\ call.reqs[1].arg = call.arg.v
        /\ \A q \in Sent(call, "jobs.list") :
              /\ q = 2
              /\ call.reqs[1].outcome = "ok"
              /\ call.reqs[q].arg = call.arg.v
        /\ call.reqs[1].outcome = "ok" => Sent(call, "jobs.list") = {2}
        /\ call.reqs[1].outcome # "ok" =>
              /\ Sent(call, "jobs.list") = {}
              /\ ~call.raised
              /\ IsEmptyResult("get_jobs", call.ret)

\* get_jobs was called for a pipeline the project does not hold: one
\* request, the lookup, answered not found, and the empty list returned.
C11_Witness ==
    \E call \in CallsOf("get_jobs") :
        /\ call.arg.v = 9
        /\ Len(call.reqs) = 1
        /\ call.reqs[1].outcome = "notfound"
        /\ IsEmptyResult("get_jobs", call.ret)

-----------------------------------------------------------------------------
\* A log display of a non-empty log: jobs logs, the job selection of
\* list-jobs, or job-logs, after get_job_logs returned a text that is not ""
LogDisplay ==
    /\ last.op \in {"jobs logs", "list-jobs", "job-logs"}
    /\ \E call \in CallsOf("get_job_logs") : Truthy(call.ret)

\* The text get_job_logs returned and the job it was asked for
LogShown == (CHOOSE call \in CallsOf("get_job_logs") : TRUE).ret.v
JobShown == ToString(int((CHOOSE call \in CallsOf("get_job_logs") : TRUE).arg).v)

\* What the user chose: the raw option, or the answer to "Display raw logs?"
UserRaw == IF last.op = "jobs logs" THEN last.in.raw ELSE last.in.display_raw

IsLogLine(l) ==
    l.msg \in {"--- Logs for Job #", "logs", "-----------------------------",
               "Panel(Syntax)"}

\* The lines of the display, in the order printed
LogLines == SelectSeq(last.out, IsLogLine)

\* The three renderings
Verbatim == <<[msg |-> "logs", args |-> <<>>, text |-> LogShown]>>
Bracketed ==
    <<[msg |-> "--- Logs for Job #", args |-> <<JobShown>>]>> \o Verbatim \o
    <<[msg |-> "-----------------------------", args |-> <<>>]>>
Highlighted ==
    <<[msg |-> "Panel(Syntax)", args |-> <<JobShown>>, text |-> LogShown]>>

(* C12, as stated: on every log-display path a non-empty log is shown in   *)
(* exactly one of two renderings: raw chosen, the text verbatim and no     *)
(* highlighted panel; raw not chosen, the highlighted panel (shell syntax, *)
(* line numbers) and no verbatim text.                                     *)
C12_NotRawIsHighlighted ==
    LogDisplay =>
        IF UserRaw
        THEN LogLines \in {Verbatim, Bracketed}
        ELSE LogLines = Highlighted

(* C12, amended: a non-empty log is shown in exactly one rendering, chosen *)
(* by the user.  jobs logs: raw prints the header line, the text verbatim  *)
(* and the footer line; not raw prints the highlighted panel.  The REPL's  *)
(* list-jobs selection and job-logs: raw prints the text verbatim alone;   *)
(* not raw prints the header line, the text verbatim and the footer line,  *)
(* and no highlighted panel is ever printed there.                         *)
C12_RenderingPerPath ==
    LogDisplay =>
        /\ last.exc = NoExc
        /\ LogLines =
              IF last.op = "jobs logs"
              THEN (IF UserRaw THEN Bracketed ELSE Highlighted)
              ELSE (IF UserRaw THEN Verbatim ELSE Bracketed)

\* job-logs showed the log of job 11 with raw not chosen: the bracket
\* lines around the text, its invalid byte replaced, and no panel.
C12_Witness ==
    /\ LogDisplay
    /\ last.op = "job-logs" /\ ~UserRaw
    /\ LogLines = Bracketed
    /\ JobShown = "11" /\ LogShown = <<104, 105, 65533>>

-----------------------------------------------------------------------------
\* The requests an operation sends when none fails, in order
RequestsOf(fn) ==
    CASE fn \in {"get_pipelines", "get_latest_pipeline"} -> <<"pipelines.list">>
      [] fn = "get_pipeline"     -> <<"pipelines.get">>
      [] fn = "create_pipeline"  -> <<"pipelines.create">>
      [] fn = "get_jobs"         -> <<"pipelines.get", "jobs.list">>
      [] fn = "get_job"          -> <<"jobs.get">>
      [] fn = "get_job_logs"     -> <<"jobs.get", "job.trace">>

(* C13: no facade operation retries.  Within one invocation the requests   *)
(* sent are a prefix of the operation's own sequence, so each is sent at   *)
(* most once: one request at most for get_pipelines, get_pipeline,         *)
(* create_pipeline and get_job, two at most for get_jobs (lookup, job      *)
(* list) and get_job_logs (lookup, trace); a request that fails is the     *)
(* last one of the invocation, which returns its empty value.              *)
C13_NoRetry ==
    \A call \in Calls :
        /\ call.fn \in FacadeOps
        /\ Len(call.reqs) <= Len(RequestsOf(call.fn))
        /\ \A q \in DOMAIN call.reqs :
              /\ call.reqs[q].kind = RequestsOf(call.fn)[q]
              /\ call.reqs[q].outcome # "ok" =>
                    /\ q = Len(call.reqs)
                    /\ ~call.raised
                    /\ IsEmptyResult(call.fn, call.ret)

\* get_job_logs found the job, the trace request failed in transport, and
\* the operation returned "" after these two requests.
C13_Witness ==
    \E call \in CallsOf("get_job_logs") :
        /\ Len(call.reqs) = 2
        /\ call.reqs[1].outcome = "ok"
        /\ call.reqs[2].kind = "job.trace"
        /\ call.reqs[2].outcome = "transport"
        /\ IsEmptyResult("get_job_logs", call.ret)

-----------------------------------------------------------------------------
\* A text int() refuses
NotAnInteger(text) == ~int(PyStr(text)).ok

\* The step recorded in l asked for a pipeline id and was given a text that
\* is no integer: the selection of list-pipelines (asked when the list is
\* not empty), pipeline-status and list-jobs (asked unless the current id
\* is used).
BadPipelineIdEntered(l) ==
    \/ /\ l.op = "list-pipelines"
       /\ l.in.select_pipeline
       /\ \E k \in DOMAIN l.calls :
             l.calls[k].fn = "get_pipelines" /\ Truthy(l.calls[k].ret)
       /\ NotAnInteger(l.in.pipeline_id)
    \/ /\ l.op \in {"pipeline-status", "list-jobs"}
       /\ ~l.in.use_current
       /\ NotAnInteger(l.in.pipeline_id)

\* The step recorded in l asked for a job id and was given a text that is
\* no integer: the selection of list-jobs (asked when jobs were listed) and
\* job-logs (asked unless the current id is used).
BadJobIdEntered(l) ==
    \/ /\ l.op = "list-jobs"
       /\ l.in.select_job
       /\ \E k \in DOMAIN l.calls :
             l.calls[k].fn = "get_jobs" /\ Truthy(l.calls[k].ret)
       /\ NotAnInteger(l.in.job_id)
    \/ /\ l.op = "job-logs"
       /\ ~l.in.use_current
       /\ NotAnInteger(l.in.job_id)

\* An error line was printed
ErrorReported(l) ==
    \E k \in DOMAIN l.out :
        l.out[k].msg \in {"Error:", "Error: Pipeline ID must be an integer",
                          "Error: Job ID must be an integer"}

\* No facade operation that takes the id asked for was called
NoCallWith(l, fns) == \A k \in DOMAIN l.calls : l.calls[k].fn \notin fns

\* One iteration of the REPL in which a non-integer id was entered
C14_Step ==
    (phase = "ready" /\ cmd = "interactive" /\ last' # last
       /\ (BadPipelineIdEntered(last') \/ BadJobIdEntered(last')))
    =>
        /\ phase' = "stepped"
        /\ ErrorReported(last')
        /\ BadPipelineIdEntered(last') =>
              NoCallWith(last', {"get_pipeline", "get_jobs"})
        /\ BadJobIdEntered(last') =>
              NoCallWith(last', {"get_job", "get_job_logs"})
        /\ current_pipeline_id' = current_pipeline_id
        /\ current_job_id' = current_job_id

(* C14: in the interactive session, when the user enters a non-integer     *)
(* where a pipeline id or a job id is asked for (the selection of          *)
(* list-pipelines, pipeline-status, list-jobs, job-logs), the step ends    *)
(* with an error reported, no facade operation is called with that input,  *)
(* the session is back at the prompt, and current_pipeline_id and          *)
(* current_job_id are what they were before the step.                      *)
C14_BadIdAbortsStep == [][C14_Step]_vars

====
